---- MODULE Spec2Model ----
(***************************************************************************)
(* Model of the workout API of apps/api: the Express routes of             *)
(* routes/workouts.ts (day and week resolution, workout creation, session  *)
(* logging, log lookup, two-step workout deletion), the transactional      *)
(* delete variant kept in routes/auth.ts, and the SQLite store with its    *)
(* ON DELETE RESTRICT foreign keys.                                        *)
(*                                                                         *)
(* Time is a UTC instant in milliseconds. A calendar date "YYYY-MM-DD" is  *)
(* its day number (day 0 = 1970-01-01, a Thursday). The JavaScript Date    *)
(* methods that work in the server's local time (getDay, getDate, setDate, *)
(* setHours) are computed through the server's timezone tz, which the      *)
(* process takes from its environment.                                     *)
(***************************************************************************)
EXTENDS Integers, Sequences, FiniteSets, TLC

\* ------------------------------------------------------------------ bounds
MaxWorkouts == 2
MaxLogs == 2
MaxExercises == 1
\* date parameters are the days FirstDay .. FirstDay + DaySpan
DaySpan == 1

\* ------------------------------------------------------------------- time
MsPerHour == 60 * 60 * 1000
MsPerDay == 24 * MsPerHour
\* 1970-01-01 was a Thursday (getDay: 0 = Sunday .. 6 = Saturday)
EpochWeekday == 4
\* the first date the requests name: 1970-01-09, a Friday
FirstDay == 8
\* the DST zone springs forward at 02:00 local standard time on this day
\* (1970-01-11, a Sunday)
DstDay == FirstDay + 2

Users == {1, 2}

\* a JavaScript number: an integer, or NaN
Num(n) == [nan |-> FALSE, value |-> n]
NaN == [nan |-> TRUE, value |-> 0]
\* a body field that is absent: undefined for the results, and for the date and
\* the workoutId a value that !x rejects like undefined
Missing == "undefined"
NoDate == 0
NoWorkoutId == 0
\* JSON null in the place of a workout id (ids start at 1)
Null == 0
NoResponse == [op |-> "none"]

\* A :date parameter that names no calendar date:
\* one that does not fit /^\d{4}-\d{2}-\d{2}$/ ("tomorrow"),
NotADate == -1
\* and one that fits the pattern and has no such month ("1970-13-01")
NoSuchMonth == -2
InvalidDates == {NotADate, NoSuchMonth}

\* The server's timezone. std is the standard offset (local = UTC + std);
\* a zone with dst moves its clocks one hour forward at DstDay 02:00.
TimeZones ==
    { [name |-> "UTC", std |-> 0, dst |-> FALSE],
      [name |-> "America/Sao_Paulo", std |-> -3 * MsPerHour, dst |-> FALSE],
      [name |-> "America/New_York", std |-> -5 * MsPerHour, dst |-> TRUE] }

VARIABLES
    tz,             \* the server process's timezone
    workouts,       \* table Workout: id -> row
    exercises,      \* table Exercise: id -> row
    logs,           \* table WorkoutLog: id -> row
    nextWorkoutId,  \* AUTOINCREMENT counters
    nextExerciseId,
    nextLogId,
    pendingDelete,  \* DELETE /workouts/:id requests between their two awaits
    response        \* the last step taken: its request and the response sent

vars == <<tz, workouts, exercises, logs, nextWorkoutId, nextExerciseId,
          nextLogId, pendingDelete, response>>

store == <<workouts, exercises, logs>>

\* ---------------------------------------------------------------- strings
\* A string is a sequence of one-character strings.
Digits == <<"0", "1", "2", "3", "4", "5", "6", "7", "8", "9">>

DigitValue(c) == CHOOSE v \in 0..9 : Digits[v + 1] = c

IsDigit(c) == \E v \in 0..9 : Digits[v + 1] = c

RECURSIVE NatToString(_)
NatToString(n) ==
    IF n < 10 THEN <<Digits[n + 1]>>
    ELSE NatToString(n \div 10) \o <<Digits[(n % 10) + 1]>>

\* Number.prototype.toString of an integer
NumToString(n) == IF n < 0 THEN <<"-">> \o NatToString(-n) ELSE NatToString(n)

\* Number.prototype.toString of a number: NaN prints as "NaN"
NumberToString(x) == IF x.nan THEN <<"N", "a", "N">> ELSE NumToString(x.value)

\* Array.prototype.join(',') of a list of integers
RECURSIVE Join(_)
Join(days) ==
    IF Len(days) = 0 THEN <<>>
    ELSE IF Len(days) = 1 THEN NumToString(days[1])
    ELSE NumToString(days[1]) \o <<",">> \o Join(Tail(days))

\* String.prototype.split(','): the empty string splits into one empty piece
RECURSIVE Split(_)
Split(s) ==
    IF \A i \in 1..Len(s) : s[i] # ","
    THEN <<s>>
    ELSE LET k == CHOOSE i \in 1..Len(s) :
                      s[i] = "," /\ \A j \in 1..(i - 1) : s[j] # ","
         IN  <<SubSeq(s, 1, k - 1)>> \o Split(SubSeq(s, k + 1, Len(s)))

RECURSIVE DigitsValue(_, _)
DigitsValue(s, acc) ==
    IF Len(s) = 0 \/ ~IsDigit(s[1]) THEN acc
    ELSE DigitsValue(Tail(s), 10 * acc + DigitValue(s[1]))

\* parseInt: an optional sign, then the leading digits; NaN when there are none
ParseInt(s) ==
    LET neg  == Len(s) > 0 /\ s[1] = "-"
        rest == IF neg THEN Tail(s) ELSE s
    IN  IF Len(rest) = 0 \/ ~IsDigit(rest[1]) THEN NaN
        ELSE IF neg THEN Num(-DigitsValue(rest, 0)) ELSE Num(DigitsValue(rest, 0))

\* Prisma's { contains: sub } on SQLite: LIKE '%sub%', a substring test
Contains(s, sub) ==
    \E i \in 1..(Len(s) - Len(sub) + 1) : SubSeq(s, i, i + Len(sub) - 1) = sub

\* parseWorkoutScheduleDays: the days a stored row is reported with
ParseScheduleDays(scheduleDays) ==
    LET pieces == Split(scheduleDays)
    IN  [i \in 1..Len(pieces) |-> ParseInt(pieces[i])]

\* ------------------------------------------------------------------ dates
\* new Date("YYYY-MM-DD"): midnight UTC of that day
ParseDate(d) == d * MsPerDay

\* dateRegex.test(date)
DateRegex(date) == date # NotADate

\* new Date(date): the time value the Date holds. A string that is no date
\* gives Invalid Date, whose time value is NaN.
NewDate(date) == IF date \in InvalidDates THEN NaN ELSE Num(ParseDate(date))

\* the zone's UTC instant of its spring-forward
DstSwitch == DstDay * MsPerDay + 2 * MsPerHour - tz.std

\* local time = UTC + offset
Offset(t) == IF tz.dst /\ t >= DstSwitch THEN tz.std + MsPerHour ELSE tz.std

LocalOf(t) == t + Offset(t)

\* the UTC instant of a local time; a local time the spring-forward skips is
\* read with the offset before the transition
UTCOfLocal(l) ==
    IF ~tz.dst \/ l - tz.std < DstSwitch THEN l - tz.std
    ELSE IF l - tz.std - MsPerHour >= DstSwitch THEN l - tz.std - MsPerHour
    ELSE l - tz.std

Weekday(day) == (EpochWeekday + day) % 7

\* Date.prototype.getDay: the weekday of the local date
GetDay(t) == Weekday(LocalOf(t) \div MsPerDay)

\* targetDate.getDay() of a Date that may be Invalid Date
DayOfWeek(targetDate) ==
    IF targetDate.nan THEN NaN ELSE Num(GetDay(targetDate.value))

\* the weekday of the UTC date
GetUTCDay(t) == Weekday(t \div MsPerDay)

\* Date.prototype.setHours(h, m, s, ms) as used: a time of the local date
SetHours(t, msOfDay) == UTCOfLocal((LocalOf(t) \div MsPerDay) * MsPerDay + msOfDay)

\* d.setDate(start.getDate() + i): the local date moves, the local time of day stays
SetDate(t, start, i) ==
    UTCOfLocal(((LocalOf(start) \div MsPerDay) + i) * MsPerDay + (LocalOf(t) % MsPerDay))

\* toISOString().split('T')[0]: the UTC date
ISODate(t) == t \div MsPerDay

EndOfDay == MsPerDay - 1

\* ------------------------------------------------------------------ store
WorkoutIds == 1..MaxWorkouts

\* the rows of a table t whose key is outside gone
Without(t, gone) == [k \in DOMAIN t \ gone |-> t[k]]

ExercisesOf(w) == {e \in DOMAIN exercises : exercises[e].workoutId = w}

LogsOf(w) == {l \in DOMAIN logs : logs[l].workoutId = w}

\* a variant without WorkoutLog_workoutId_fkey (used to test C14)
ReferencedByExercise(w) == ExercisesOf(w) # {}

\* Exercise_workoutId_fkey and WorkoutLog_workoutId_fkey, ON DELETE RESTRICT:
\* a Workout row that is still referenced cannot be deleted
Referenced(w) == ExercisesOf(w) # {} \/ LogsOf(w) # {}

\* ----------------------------------------------------------------- inputs
Categories == {"Push", "Pull", "Legs", "Upper", "Lower"}

ScheduleTypes == {"weekly", "daily"}

CategoryInputs == {"Push", "Legs"}

TypeInputs == {"weekly", "daily", "monthly"}

\* schedule.days of a request: any array of numbers passes the schema
DaysInputs == {<<>>, <<5>>, <<15>>, <<6, 0>>}

ExerciseInputs == UNION {[1..n -> {"Bench"}] : n \in 0..MaxExercises}

DateInputs == FirstDay..(FirstDay + DaySpan)

\* the :date parameters: dates, and strings that name no date
DateParams == DateInputs \cup InvalidDates

\* the instants a log request names (ISO strings in UTC) and the wall clock
\* shows: noon of the day before FirstDay, the first and the last millisecond
\* of FirstDay, and the first millisecond of the day after
Instants ==
    {ParseDate(FirstDay - 1) + 12 * MsPerHour, ParseDate(FirstDay),
     ParseDate(FirstDay) + EndOfDay, ParseDate(FirstDay + 1)}

ResultInputs == {"3x10x80"}

\* ------------------------------------------------------ POST /workouts
\* workoutSchema.parse(req.body): the enums are checked, the days are any numbers
workoutSchema(body) ==
    /\ body.category \in Categories
    /\ body.schedule.type \in ScheduleTypes
    /\ body.schedule.days \in Seq(Int)

\* parseWorkoutScheduleDays(workout), with the exercises included
WorkoutJson(id, row, exs) ==
    [id |-> id, userId |-> row.userId, category |-> row.category,
     scheduleDays |-> row.scheduleDays, type |-> row.scheduleType,
     days |-> ParseScheduleDays(row.scheduleDays), exercises |-> exs]

CreateWorkout(u, body) ==
    /\ nextWorkoutId <= MaxWorkouts
    /\ IF ~workoutSchema(body)
       THEN /\ response' = [op |-> "create", user |-> u, req |-> body,
                            status |-> 400, body |-> "ZodError"]
            /\ UNCHANGED <<workouts, exercises, nextWorkoutId, nextExerciseId>>
       ELSE LET id  == nextWorkoutId
                row == [userId |-> u, category |-> body.category,
                        scheduleType |-> body.schedule.type,
                        scheduleDays |-> Join(body.schedule.days)]
                n   == Len(body.exercises)
                new == [e \in nextExerciseId..(nextExerciseId + n - 1) |->
                           [workoutId |-> id,
                            name |-> body.exercises[e - nextExerciseId + 1]]]
            IN  /\ workouts' = workouts @@ (id :> row)
                /\ exercises' = exercises @@ new
                /\ nextWorkoutId' = id + 1
                /\ nextExerciseId' = nextExerciseId + n
                /\ response' = [op |-> "create", user |-> u, req |-> body,
                                status |-> 200,
                                body |-> WorkoutJson(id, row, DOMAIN new)]
    /\ UNCHANGED <<tz, logs, nextLogId, pendingDelete>>

\* --------------------------------------------- day and week resolution
\* the where clause of both findFirst calls
WhereScheduled(u, w, dayOfWeek) ==
    /\ workouts[w].userId = u
    /\ \/ workouts[w].scheduleType = "daily"
       \/ /\ workouts[w].scheduleType = "weekly"
          /\ Contains(workouts[w].scheduleDays, NumberToString(dayOfWeek))

\* the orders in which the store may hand out the Workout rows: a query
\* without orderBy promises none
ScanOrders ==
    {o \in [1..Cardinality(DOMAIN workouts) -> DOMAIN workouts] :
        \A i, j \in DOMAIN o : i # j => o[i] # o[j]}

\* findFirst: the first row of the scan that satisfies the where clause
FindFirst(order, u, dayOfWeek) ==
    LET hits == {i \in DOMAIN order : WhereScheduled(u, order[i], dayOfWeek)}
    IN  IF hits = {} THEN Null
        ELSE order[CHOOSE i \in hits : \A j \in hits : i <= j]

\* GET /workouts/date/:date
GetWorkoutForDate(u, date) ==
    /\ \E order \in ScanOrders :
          LET targetDate == NewDate(date)
              dayOfWeek == DayOfWeek(targetDate)
              workout   == FindFirst(order, u, dayOfWeek)
          IN  response' =
                  [op |-> "date", user |-> u, req |-> [date |-> date],
                   status |-> 200,
                   body |-> IF workout = Null
                            THEN [date |-> date, category |-> "Rest",
                                  exercises |-> {}]
                            ELSE [date |-> date,
                                  category |-> workouts[workout].category,
                                  exercises |-> ExercisesOf(workout)]]
    /\ UNCHANGED <<tz, workouts, exercises, logs, nextWorkoutId, nextExerciseId,
                   nextLogId, pendingDelete>>

\* one pass of the loop of GET /workouts/week/:date
WeekEntry(order, u, startDate, i) ==
    LET currentDate == SetDate(startDate, startDate, i)
        workout     == FindFirst(order, u, Num(GetDay(currentDate)))
    IN  IF workout = Null
        THEN [id |-> Null, date |-> ISODate(currentDate), category |-> "Rest",
              exercises |-> {}]
        ELSE [id |-> workout, date |-> ISODate(currentDate),
              category |-> workouts[workout].category,
              exercises |-> ExercisesOf(workout)]

\* GET /workouts/week/:date
GetWeek(u, date) ==
    /\ IF ~DateRegex(date)
       THEN response' = [op |-> "week", user |-> u, req |-> [date |-> date],
                         status |-> 400, body |-> "Invalid date format"]
       ELSE LET startDate == NewDate(date)
            IN  IF startDate.nan
                THEN response' =
                         [op |-> "week", user |-> u, req |-> [date |-> date],
                          status |-> 400, body |-> "Invalid date"]
                ELSE \E order \in ScanOrders :
                        response' =
                            [op |-> "week", user |-> u, req |-> [date |-> date],
                             status |-> 200,
                             body |-> [k \in 1..7 |->
                                 WeekEntry(order, u, startDate.value, k - 1)]]
    /\ UNCHANGED <<tz, workouts, exercises, logs, nextWorkoutId, nextExerciseId,
                   nextLogId, pendingDelete>>

\* ------------------------------------------------------------- logging
\* prisma.workoutLog.create: the row is stored unless a required value is
\* missing or WorkoutLog_workoutId_fkey finds no such Workout
CanCreateLog(data) ==
    /\ data.exercises # Missing
    /\ data.workoutId \in DOMAIN workouts

\* POST /workouts/:id/log; now is the wall clock at the request
LogWorkoutSession(u, id, body, now) ==
    /\ nextLogId <= MaxLogs
    /\ LET data == [userId |-> u, workoutId |-> id, date |-> now,
                    exercises |-> body.exercises]
           req  == [id |-> id, date |-> body.date, exercises |-> body.exercises]
       IN  IF CanCreateLog(data)
           THEN /\ logs' = logs @@ (nextLogId :> data)
                /\ nextLogId' = nextLogId + 1
                /\ response' = [op |-> "log", user |-> u, req |-> req,
                                status |-> 200,
                                body |-> [id |-> nextLogId] @@ data]
           ELSE /\ response' = [op |-> "log", user |-> u, req |-> req,
                                status |-> 500, body |-> "Failed to log workout"]
                /\ UNCHANGED <<logs, nextLogId>>
    /\ UNCHANGED <<tz, workouts, exercises, nextWorkoutId, nextExerciseId,
                   pendingDelete>>

\* POST /workouts/logs
LogWorkout(u, body) ==
    /\ nextLogId <= MaxLogs
    /\ LET req == [id |-> body.workoutId, date |-> body.date,
                   exercises |-> body.exercises]
       IN  IF body.date = NoDate \/ body.exercises = Missing
              \/ body.workoutId = NoWorkoutId
           THEN /\ response' = [op |-> "log", user |-> u, req |-> req,
                                status |-> 400,
                                body |-> "Missing required fields"]
                /\ UNCHANGED <<logs, nextLogId>>
           ELSE LET data == [userId |-> u, workoutId |-> body.workoutId,
                             date |-> body.date, exercises |-> body.exercises]
                IN  IF CanCreateLog(data)
                    THEN /\ logs' = logs @@ (nextLogId :> data)
                         /\ nextLogId' = nextLogId + 1
                         /\ response' = [op |-> "log", user |-> u, req |-> req,
                                         status |-> 200,
                                         body |-> [id |-> nextLogId] @@ data]
                    ELSE /\ response' = [op |-> "log", user |-> u, req |-> req,
                                         status |-> 500,
                                         body |-> "Failed to log workout"]
                         /\ UNCHANGED <<logs, nextLogId>>
    /\ UNCHANGED <<tz, workouts, exercises, nextWorkoutId, nextExerciseId,
                   pendingDelete>>

\* a log row as GET /workouts/logs/:date returns it: with its workout's category
LogJson(l) ==
    [id |-> l] @@ logs[l] @@
    [workout |-> [category |-> workouts[logs[l].workoutId].category]]

\* the rows findMany selects in GET /workouts/logs/:date, parsed the time
\* value new Date(date) holds
LogsInWindow(u, parsed) ==
    LET targetDate == SetHours(parsed, 0)
        endDate    == SetHours(targetDate, EndOfDay)
    IN  {l \in DOMAIN logs : /\ logs[l].userId = u
                             /\ logs[l].date >= targetDate
                             /\ logs[l].date <= endDate}

\* orderBy: { date: 'desc' }; rows of one date come in any order
DateDescending(rows) ==
    {o \in [1..Cardinality(rows) -> rows] :
        /\ \A i, j \in DOMAIN o : i # j => o[i] # o[j]
        /\ \A i, j \in DOMAIN o : i < j => logs[o[i]].date >= logs[o[j]].date}

\* GET /workouts/logs/:date; findMany throws on a bound that is Invalid Date
GetLogsForDate(u, date) ==
    /\ IF ~DateRegex(date)
       THEN response' = [op |-> "logs", user |-> u, req |-> [date |-> date],
                         status |-> 400, body |-> "Invalid date format"]
       ELSE LET parsed == NewDate(date)
            IN  IF parsed.nan
                THEN response' =
                         [op |-> "logs", user |-> u, req |-> [date |-> date],
                          status |-> 500,
                          body |-> "Failed to fetch workout logs"]
                ELSE \E o \in DateDescending(LogsInWindow(u, parsed.value)) :
                        response' =
                            [op |-> "logs", user |-> u, req |-> [date |-> date],
                             status |-> 200,
                             body |-> [i \in DOMAIN o |-> LogJson(o[i])]]
    /\ UNCHANGED <<tz, workouts, exercises, logs, nextWorkoutId, nextExerciseId,
                   nextLogId, pendingDelete>>

\* ------------------------------------------------ DELETE /workouts/:id
MaxPending == 1

\* routes/workouts.ts, up to its second await: the exercises of the named
\* workout are deleted, whoever owns it
DeleteExercises(u, id) ==
    /\ Cardinality(pendingDelete) < MaxPending
    /\ exercises' = Without(exercises, ExercisesOf(id))
    /\ pendingDelete' = pendingDelete \cup {[user |-> u, id |-> id]}
    /\ response' = [op |-> "deleting", user |-> u, req |-> [id |-> id]]
    /\ UNCHANGED <<tz, workouts, logs, nextWorkoutId, nextExerciseId, nextLogId>>

\* routes/workouts.ts, from its second await: prisma.workout.delete throws when
\* the row is absent or still referenced, and the handler answers 500
DeleteWorkoutRow(p) ==
    /\ p \in pendingDelete
    /\ pendingDelete' = pendingDelete \ {p}
    /\ IF p.id \in DOMAIN workouts /\ ~Referenced(p.id)
       THEN /\ workouts' = Without(workouts, {p.id})
            /\ response' = [op |-> "delete", user |-> p.user,
                            req |-> [id |-> p.id], status |-> 200]
       ELSE /\ response' = [op |-> "delete", user |-> p.user,
                            req |-> [id |-> p.id], status |-> 500]
            /\ UNCHANGED workouts
    /\ UNCHANGED <<tz, exercises, logs, nextWorkoutId, nextExerciseId, nextLogId>>

\* a variant that deletes the caller's logs, not the workout's (used to test C13)
DeleteWorkoutTransactionByUser(u, id) ==
    /\ IF id \in DOMAIN workouts /\ workouts[id].userId = u
       THEN /\ logs' = Without(logs, {l \in DOMAIN logs : logs[l].userId = u})
            /\ exercises' = Without(exercises, ExercisesOf(id))
            /\ workouts' = Without(workouts, {id})
            /\ response' = [op |-> "deleteTx", user |-> u, req |-> [id |-> id],
                            status |-> 200]
       ELSE /\ response' = [op |-> "deleteTx", user |-> u, req |-> [id |-> id],
                            status |-> 404]
            /\ UNCHANGED <<workouts, exercises, logs>>
    /\ UNCHANGED <<tz, nextWorkoutId, nextExerciseId, nextLogId, pendingDelete>>

\* routes/auth.ts: the ownership check, then the three deletes in one transaction
DeleteWorkoutTransaction(u, id) ==
    /\ IF id \in DOMAIN workouts /\ workouts[id].userId = u
       THEN /\ logs' = Without(logs, LogsOf(id))
            /\ exercises' = Without(exercises, ExercisesOf(id))
            /\ workouts' = Without(workouts, {id})
            /\ response' = [op |-> "deleteTx", user |-> u, req |-> [id |-> id],
                            status |-> 200]
       ELSE /\ response' = [op |-> "deleteTx", user |-> u, req |-> [id |-> id],
                            status |-> 404]
            /\ UNCHANGED <<workouts, exercises, logs>>
    /\ UNCHANGED <<tz, nextWorkoutId, nextExerciseId, nextLogId, pendingDelete>>

\* ------------------------------------------------- /exercises/:id
ExerciseIds == 1..(MaxWorkouts * MaxExercises)

\* the name of a request body; a body without one fails the schema
ExerciseNames == {"Bench", "Squat"}

ExerciseBodies == [name : ExerciseNames \cup {Missing}]

\* exerciseSchema.parse(req.body)
exerciseSchema(body) == body.name # Missing

\* prisma.exercise.findFirst({ where: { id, workout: { userId } } })
FindExercise(u, id) ==
    /\ id \in DOMAIN exercises
    /\ exercises[id].workoutId \in DOMAIN workouts
    /\ workouts[exercises[id].workoutId].userId = u

\* PUT /exercises/:id
UpdateExercise(u, id, body) ==
    /\ IF ~exerciseSchema(body)
       THEN /\ response' = [op |-> "updateExercise", user |-> u,
                            req |-> [id |-> id, name |-> body.name],
                            status |-> 400]
            /\ UNCHANGED exercises
       ELSE IF ~FindExercise(u, id)
       THEN /\ response' = [op |-> "updateExercise", user |-> u,
                            req |-> [id |-> id, name |-> body.name],
                            status |-> 404]
            /\ UNCHANGED exercises
       ELSE /\ exercises' = [exercises EXCEPT ![id].name = body.name]
            /\ response' = [op |-> "updateExercise", user |-> u,
                            req |-> [id |-> id, name |-> body.name],
                            status |-> 200]
    /\ UNCHANGED <<tz, workouts, logs, nextWorkoutId, nextExerciseId, nextLogId,
                   pendingDelete>>

\* DELETE /exercises/:id
DeleteExercise(u, id) ==
    /\ IF ~FindExercise(u, id)
       THEN /\ response' = [op |-> "deleteExercise", user |-> u,
                            req |-> [id |-> id], status |-> 404]
            /\ UNCHANGED exercises
       ELSE /\ exercises' = Without(exercises, {id})
            /\ response' = [op |-> "deleteExercise", user |-> u,
                            req |-> [id |-> id], status |-> 204]
    /\ UNCHANGED <<tz, workouts, logs, nextWorkoutId, nextExerciseId, nextLogId,
                   pendingDelete>>

\* ------------------------------------------------------- specification
UTC == CHOOSE z \in TimeZones : z.std = 0 /\ ~z.dst

InitStore ==
    /\ workouts = <<>>
    /\ exercises = <<>>
    /\ logs = <<>>
    /\ nextWorkoutId = 1
    /\ nextExerciseId = 1
    /\ nextLogId = 1
    /\ pendingDelete = {}
    /\ response = NoResponse

Init == tz \in TimeZones /\ InitStore

WorkoutBodies ==
    [category : CategoryInputs, exercises : ExerciseInputs,
     schedule : [type : TypeInputs, days : DaysInputs]]

\* the body of POST /workouts/:id/log
SessionBodies ==
    [date : Instants \cup {NoDate}, exercises : ResultInputs \cup {Missing}]

\* the body of POST /workouts/logs
LogBodies ==
    [date : Instants \cup {NoDate}, exercises : ResultInputs \cup {Missing},
     workoutId : WorkoutIds \cup {NoWorkoutId}]

\* the log bodies with every field, and three that miss one field each
FewLogBodies ==
    LET absent(b) == {f \in {"date", "exercises", "workoutId"} :
                         \/ f = "date" /\ b.date = NoDate
                         \/ f = "exercises" /\ b.exercises = Missing
                         \/ f = "workoutId" /\ b.workoutId = NoWorkoutId}
    IN  {b \in LogBodies :
            \/ absent(b) = {}
            \/ /\ Cardinality(absent(b)) = 1
               /\ b.date \in {NoDate, ParseDate(FirstDay)}
               /\ b.workoutId \in {NoWorkoutId, 1}}

\* the whole API
Next ==
    \/ \E u \in Users, body \in WorkoutBodies : CreateWorkout(u, body)
    \/ \E u \in Users, date \in DateParams : GetWorkoutForDate(u, date)
    \/ \E u \in Users, date \in DateParams : GetWeek(u, date)
    \/ \E u \in Users, id \in WorkoutIds, body \in SessionBodies, now \in Instants :
          LogWorkoutSession(u, id, body, now)
    \/ \E u \in Users, body \in LogBodies : LogWorkout(u, body)
    \/ \E u \in Users, date \in DateParams : GetLogsForDate(u, date)
    \/ \E u \in Users, id \in WorkoutIds : DeleteExercises(u, id)
    \/ \E p \in pendingDelete : DeleteWorkoutRow(p)
    \/ \E u \in Users, id \in WorkoutIds : DeleteWorkoutTransaction(u, id)
    \/ \E u \in Users, id \in ExerciseIds, body \in ExerciseBodies :
          UpdateExercise(u, id, body)
    \/ \E u \in Users, id \in ExerciseIds : DeleteExercise(u, id)

Spec == Init /\ [][Next]_vars

\* workout creation with day and week resolution, in every timezone
ScheduleBodies == {b \in WorkoutBodies : Len(b.exercises) = 1}

ScheduleNext ==
    \/ \E u \in Users, body \in ScheduleBodies : CreateWorkout(u, body)
    \/ \E u \in Users, date \in DateInputs : GetWorkoutForDate(u, date)
    \/ \E u \in Users, date \in DateInputs : GetWeek(u, date)

SpecSchedule == Init /\ [][ScheduleNext]_vars

\* session logging and log lookup, in the timezones without DST, over daily
\* workouts without exercises
LogInit == tz \in {z \in TimeZones : ~z.dst} /\ InitStore

LogWorkoutBodies ==
    {b \in WorkoutBodies : /\ b.schedule = [type |-> "daily", days |-> <<>>]
                           /\ b.exercises = <<>>}

LogNext ==
    \/ \E u \in Users, body \in LogWorkoutBodies : CreateWorkout(u, body)
    \/ \E u \in Users, id \in WorkoutIds, body \in SessionBodies :
          LogWorkoutSession(u, id, body, ParseDate(FirstDay + 1))
    \/ \E u \in Users, body \in FewLogBodies : LogWorkout(u, body)
    \/ \E u \in Users, date \in DateInputs : GetLogsForDate(u, date)

SpecLog == LogInit /\ [][LogNext]_vars

\* workout deletion by both routes, in UTC, over workouts with and without
\* exercises and logs
DeleteInit == tz = UTC /\ InitStore

DeleteWorkoutBodies ==
    {b \in WorkoutBodies : /\ b.schedule = [type |-> "daily", days |-> <<>>]
                           /\ b.category = "Push"}

DeleteLogBodies ==
    {b \in LogBodies : /\ b.date = ParseDate(FirstDay)
                       /\ b.exercises # Missing
                       /\ b.workoutId # NoWorkoutId}

DeleteNext ==
    \/ \E u \in Users, body \in DeleteWorkoutBodies : CreateWorkout(u, body)
    \/ \E u \in Users, body \in DeleteLogBodies : LogWorkout(u, body)
    \/ \E u \in Users, id \in WorkoutIds : DeleteExercises(u, id)
    \/ \E p \in pendingDelete : DeleteWorkoutRow(p)
    \/ \E u \in Users, id \in WorkoutIds : DeleteWorkoutTransaction(u, id)

SpecDelete == DeleteInit /\ [][DeleteNext]_vars

\* every route that writes to the store, in UTC. User 1 creates workouts of
\* one exercise, logs sessions on them, renames the exercises and deletes
\* workouts by the transactional route; user 2 logs by POST /workouts/logs and
\* deletes by the two-step route; both delete exercises. Requests name the
\* stored rows and the next id, which names no row.
StoreWorkoutBodies == {b \in DeleteWorkoutBodies : Len(b.exercises) = 1}

StoreSessionBodies ==
    {b \in SessionBodies : b.date = NoDate /\ b.exercises # Missing}

StoreWorkoutIds == DOMAIN workouts \cup {nextWorkoutId}

StoreLogBodies == {b \in DeleteLogBodies : b.workoutId \in StoreWorkoutIds}

StoreExerciseIds == DOMAIN exercises \cup {nextExerciseId}

StoreExerciseBodies == {b \in ExerciseBodies : b.name \in {"Squat", Missing}}

StoreNext ==
    \/ \E body \in StoreWorkoutBodies : CreateWorkout(1, body)
    \/ \E id \in DOMAIN workouts, body \in StoreSessionBodies :
          LogWorkoutSession(1, id, body, ParseDate(FirstDay + 1))
    \/ \E body \in StoreLogBodies : LogWorkout(2, body)
    \/ \E id \in StoreExerciseIds, body \in StoreExerciseBodies :
          UpdateExercise(1, id, body)
    \/ \E u \in Users, id \in StoreExerciseIds : DeleteExercise(u, id)
    \/ \E id \in DOMAIN workouts : DeleteExercises(2, id)
    \/ \E p \in pendingDelete : DeleteWorkoutRow(p)
    \/ \E id \in StoreWorkoutIds : DeleteWorkoutTransaction(1, id)

SpecStore == DeleteInit /\ [][StoreNext]_vars

\* the three :date routes over dates and over parameters that name no date,
\* in every timezone
DateWorkoutBodies ==
    {b \in WorkoutBodies : /\ b.category = "Push"
                           /\ b.exercises = <<>>
                           /\ b.schedule \in {[type |-> "daily", days |-> <<>>],
                                               [type |-> "weekly", days |-> <<5>>]}}

DateLogBodies ==
    {b \in LogBodies : /\ b.date = ParseDate(FirstDay)
                       /\ b.exercises # Missing
                       /\ b.workoutId = 1}

DateNext ==
    \/ \E u \in Users, body \in DateWorkoutBodies : CreateWorkout(u, body)
    \/ \E u \in Users, body \in DateLogBodies : LogWorkout(u, body)
    \/ \E u \in Users, date \in DateParams : GetWorkoutForDate(u, date)
    \/ \E u \in Users, date \in DateParams : GetWeek(u, date)
    \/ \E u \in Users, date \in DateParams : GetLogsForDate(u, date)

SpecDate == Init /\ [][DateNext]_vars

\* ----------------------------------------------------------------- claims
\* the days a stored workout is scheduled on: its scheduleDays, parsed
DaysOf(w) ==
    LET days == ParseScheduleDays(workouts[w].scheduleDays)
    IN  {days[i].value : i \in {j \in DOMAIN days : ~days[j].nan}}

\* the Schedule Model: daily always, weekly on the UTC weekday of the date
Matches(w, date) ==
    \/ workouts[w].scheduleType = "daily"
    \/ /\ workouts[w].scheduleType = "weekly"
       /\ GetUTCDay(ParseDate(date)) \in DaysOf(w)

Owns(u, w) == w \in DOMAIN workouts /\ workouts[w].userId = u

\* C1: GET /workouts/date/:date answers the Rest result exactly when no
\* workout of the caller matches the date, a weekly workout matching when the
\* UTC weekday of the date is one of its days.
C1_RestIffNoMatch ==
    response.op = "date" =>
        ((response.body.category = "Rest" /\ response.body.exercises = {})
            <=> ~\E w \in DOMAIN workouts :
                    Owns(response.user, w) /\ Matches(w, response.req.date))

\* C2: every step of a DELETE /workouts/:id request for a stored workout
\* leaves the workout, its exercises and its logs either all gone or all as
\* they were.
C2_DeleteAtomic ==
    [][\A w \in DOMAIN workouts :
          (response'.op \in {"deleting", "delete", "deleteTx"}
              /\ response'.req.id = w)
          => \/ /\ w \notin DOMAIN workouts'
                /\ ExercisesOf(w)' = {}
                /\ LogsOf(w)' = {}
             \/ /\ w \in DOMAIN workouts'
                /\ ExercisesOf(w)' = ExercisesOf(w)
                /\ LogsOf(w)' = LogsOf(w)]_vars

\* C3: every stored log belongs to the user who owns its workout, and no log
\* request for a workout of another user is answered 200.
C3_LogOwnerIsWorkoutOwner ==
    /\ \A l \in DOMAIN logs : Owns(logs[l].userId, logs[l].workoutId)
    /\ ((response.op = "log" /\ response.status = 200)
           => Owns(response.user, response.req.id))

\* the lowest id among the rows the where clause selects, or null
FirstScheduled(u, dayOfWeek) ==
    LET hits == {w \in DOMAIN workouts : WhereScheduled(u, w, Num(dayOfWeek))}
    IN  IF hits = {} THEN Null ELSE CHOOSE w \in hits : \A v \in hits : w <= v

C5_WeekIsSevenConsecutiveDays ==
    response.op = "week" =>
        /\ Len(response.body) = 7
        /\ \A k \in 1..7 :
              /\ response.body[k].date = response.req.date + k - 1
              /\ (response.body[k].id = Null =>
                     /\ response.body[k].category = "Rest"
                     /\ response.body[k].exercises = {})

\* the logs of u dated within [from, from + 23:59:59.999]
LogsOfDay(u, from) ==
    {l \in DOMAIN logs : /\ logs[l].userId = u
                         /\ logs[l].date >= from
                         /\ logs[l].date <= from + EndOfDay}

\* C6: GET /workouts/logs/:date answers exactly the caller's logs of day d,
\* from 00:00:00.000 to 23:59:59.999 inclusive, the day read in UTC or in the
\* server's local time.
C6_LogsOfTheDay ==
    response.op = "logs" =>
        LET got == {response.body[i].id : i \in DOMAIN response.body}
            d   == response.req.date
        IN  \/ got = LogsOfDay(response.user, ParseDate(d))
            \/ got = LogsOfDay(response.user, UTCOfLocal(ParseDate(d)))

\* C7: a log request answered 200 has stored the date and the results the
\* client sent, under the workout it named.
C7_LogCarriesClientDate ==
    (response.op = "log" /\ response.status = 200 /\ response.req.date # NoDate)
        => /\ response.body.id \in DOMAIN logs
           /\ logs[response.body.id].date = response.req.date
           /\ logs[response.body.id].exercises = response.req.exercises
           /\ logs[response.body.id].workoutId = response.req.id

\* C8: a step of a DELETE /workouts/:id request by a user who does not own
\* the workout changes no row, and the request is answered 404.
C8_DeleteByNonOwner ==
    [][(response'.op \in {"deleting", "delete", "deleteTx"}
           /\ ~Owns(response'.user, response'.req.id))
       => /\ UNCHANGED store
          /\ (response'.op \in {"delete", "deleteTx"} => response'.status = 404)]_vars

\* a non-empty list of distinct integers in 0..6
ValidWeeklyDays(days) ==
    /\ Len(days) > 0
    /\ \A i \in DOMAIN days : days[i] \in 0..6
    /\ \A i, j \in DOMAIN days : i # j => days[i] # days[j]

\* C9: POST /workouts with a weekly schedule is answered 200 only for valid
\* days and 400 otherwise, and every stored weekly workout has days within
\* 0..6 and at least one.
C9_WeeklyDaysValidated ==
    /\ ((response.op = "create" /\ response.req.schedule.type = "weekly")
           => IF ValidWeeklyDays(response.req.schedule.days)
              THEN response.status = 200
              ELSE response.status = 400)
    /\ \A w \in DOMAIN workouts :
           (workouts[w].scheduleType = "weekly"
               => /\ DaysOf(w) # {}
                  /\ DaysOf(w) \subseteq 0..6
                  /\ \A i \in DOMAIN ParseScheduleDays(workouts[w].scheduleDays) :
                         ~ParseScheduleDays(workouts[w].scheduleDays)[i].nan)

\* C10: the days a created workout is reported with, its stored scheduleDays
\* parsed back, are the days of the request, in their order.
C10_DaysRoundTrip ==
    (response.op = "create" /\ response.status = 200)
        => response.body.days =
               [i \in DOMAIN response.req.schedule.days |->
                   Num(response.req.schedule.days[i])]

\* C11: a request of GET /workouts/date/:date, GET /workouts/week/:date or
\* GET /workouts/logs/:date whose parameter is not a valid YYYY-MM-DD calendar
\* date is answered 400: never 200 with a result, never 500.
C11_InvalidDateRejected ==
    (response.op \in {"date", "week", "logs"} /\ response.req.date \in InvalidDates)
        => response.status = 400

\* C12: a request of POST /workouts/:id/log or POST /workouts/logs that lacks
\* the date, the exercises or the workoutId is answered 400 and stores no log.
C12_MissingFieldRejected ==
    [][(/\ response'.op = "log"
        /\ \/ response'.req.date = NoDate
           \/ response'.req.exercises = Missing
           \/ response'.req.id = NoWorkoutId)
       => (response'.status = 400 /\ UNCHANGED logs)]_vars

\* C13: a step leaves every stored log as it was (its userId, workoutId, date
\* and results), or removes it together with the workout it references;
\* updating or deleting an exercise changes no log.
C13_LogImmutable ==
    [][/\ \A l \in DOMAIN logs :
             \/ (l \in DOMAIN logs' /\ logs'[l] = logs[l])
             \/ /\ l \notin DOMAIN logs'
                /\ logs[l].workoutId \in DOMAIN workouts
                /\ logs[l].workoutId \notin DOMAIN workouts'
       /\ (response'.op \in {"updateExercise", "deleteExercise"}
              => UNCHANGED logs)]_vars

\* an exercise of a workout that has a log has just been updated, after an
\* earlier log went with its workout
C13_Witness ==
    /\ response.op = "updateExercise"
    /\ response.status = 200
    /\ LogsOf(exercises[response.req.id].workoutId) # {}
    /\ \E l \in 1..(nextLogId - 1) : l \notin DOMAIN logs

\* C14: in every reachable state every stored exercise and every stored log
\* references a workout that is stored.
C14_ReferentialIntegrity ==
    /\ \A e \in DOMAIN exercises : exercises[e].workoutId \in DOMAIN workouts
    /\ \A l \in DOMAIN logs : logs[l].workoutId \in DOMAIN workouts

\* the two-step delete of a workout that has a log has just failed, with the
\* workout and the log still stored
C14_Witness ==
    /\ response.op = "delete"
    /\ response.status = 500
    /\ response.req.id \in DOMAIN workouts
    /\ LogsOf(response.req.id) # {}

====
